---- MODULE Spec2Model ----
(***************************************************************************)
(* Model of src/serve.rs of bitcoin-exporter: the scrape handler serve_req *)
(* and the collector get_metrics, which queries a bitcoind node through a  *)
(* fixed sequence of RPC calls and writes the answers into the process-wide*)
(* Prometheus registry (the "sink").                                       *)
(*                                                                         *)
(* One action models one RPC call of get_metrics together with the         *)
(* straight-line registry writes that follow it up to the next call.  The  *)
(* `?` after every call is the only way out of get_metrics before its end. *)
(*                                                                         *)
(* Option<T> values are sequences: <<>> is None, <<v>> is Some(v).         *)
(* Gauge values are f64 in the code; the integers of the model are all far *)
(* below 2^53, where `as f64` is exact, so a gauge holds the integer.      *)
(***************************************************************************)
EXTENDS Integers, Sequences, FiniteSets, TLC

VARIABLES
    pc,             \* per handler: position in serve_req / get_metrics
    req,            \* per handler: the request being served
    node,           \* per handler: the node configuration answering its calls
    networkinfo,    \* per handler: local `networkinfo` (<<>> when out of scope)
    blockchaininfo, \* per handler: local `blockchaininfo`
    block_info,     \* per handler: local `block_info`
    result,         \* per handler: value returned by get_metrics
    resp,           \* per handler: the response of serve_req
    sink,           \* the registry: series key -> value
    calls,          \* history: RPC calls issued for the current request
    args,           \* history: the argument of each of those calls
    wrote,          \* history: series key -> number of writes in the current invocation
    pre,            \* history: the sink when the current invocation started
    invoked,        \* history: get_metrics invocations for the current request
    rendered,       \* history: registry renderings for the current request
    raised,         \* history: the failures of calls of the current invocation
    nreq            \* requests accepted so far

vars == <<pc, req, node, networkinfo, blockchaininfo, block_info, result, resp,
          sink, calls, args, wrote, pre, invoked, rendered, raised, nreq>>

\* Number of requests one behaviour serves.
MaxRequests == 2

Procs == {"h1", "h2"}

None == <<>>
Some(v) == <<v>>
IsSome(o) == Len(o) > 0
Unwrap(o) == o[1]

-----------------------------------------------------------------------------
(* Metric series.  A series key is <<static name, label values>>.          *)

BITCOIN_BLOCKS == <<"BITCOIN_BLOCKS", <<>>>>
BITCOIN_DIFFICULTY == <<"BITCOIN_DIFFICULTY", <<>>>>
BITCOIN_SIZE_ON_DISK == <<"BITCOIN_SIZE_ON_DISK", <<>>>>
BITCOIN_VERIFICATION_PROGRESS == <<"BITCOIN_VERIFICATION_PROGRESS", <<>>>>
BITCOIN_UPTIME(version, protocol, chain) == <<"BITCOIN_UPTIME", <<version, protocol, chain>>>>
BITCOIN_LATEST_BLOCK_SIZE == <<"BITCOIN_LATEST_BLOCK_SIZE", <<>>>>
BITCOIN_LATEST_BLOCK_TXS == <<"BITCOIN_LATEST_BLOCK_TXS", <<>>>>
BITCOIN_LATEST_BLOCK_HEIGHT == <<"BITCOIN_LATEST_BLOCK_HEIGHT", <<>>>>
BITCOIN_LATEST_BLOCK_WEIGHT == <<"BITCOIN_LATEST_BLOCK_WEIGHT", <<>>>>
BITCOIN_LATEST_BLOCK_INPUTS == <<"BITCOIN_LATEST_BLOCK_INPUTS", <<>>>>
BITCOIN_LATEST_BLOCK_OUTPUTS == <<"BITCOIN_LATEST_BLOCK_OUTPUTS", <<>>>>
BITCOIN_LATEST_BLOCK_VALUE == <<"BITCOIN_LATEST_BLOCK_VALUE", <<>>>>
BITCOIN_LATEST_BLOCK_FEE == <<"BITCOIN_LATEST_BLOCK_FEE", <<>>>>
BITCOIN_PEERS == <<"BITCOIN_PEERS", <<>>>>
BITCOIN_CONN_IN == <<"BITCOIN_CONN_IN", <<>>>>
BITCOIN_CONN_OUT == <<"BITCOIN_CONN_OUT", <<>>>>
BITCOIN_WARNINGS == <<"BITCOIN_WARNINGS", <<>>>>
SMART_FEE_2 == <<"SMART_FEE_2", <<>>>>
SMART_FEE_3 == <<"SMART_FEE_3", <<>>>>
SMART_FEE_5 == <<"SMART_FEE_5", <<>>>>
SMART_FEE_20 == <<"SMART_FEE_20", <<>>>>
BITCOIN_HASHPS == <<"BITCOIN_HASHPS", <<>>>>
BITCOIN_HASHPS_1 == <<"BITCOIN_HASHPS_1", <<>>>>
BITCOIN_BAN_CREATED(address, reason) == <<"BITCOIN_BAN_CREATED", <<address, reason>>>>
BITCOIN_BANNED_UNTIL(address, reason) == <<"BITCOIN_BANNED_UNTIL", <<address, reason>>>>
BITCOIN_NUM_CHAINTIPS == <<"BITCOIN_NUM_CHAINTIPS", <<>>>>
BITCOIN_MEMPOOL_BYTES == <<"BITCOIN_MEMPOOL_BYTES", <<>>>>
BITCOIN_MEMPOOL_SIZE == <<"BITCOIN_MEMPOOL_SIZE", <<>>>>
BITCOIN_MEMPOOL_USAGE == <<"BITCOIN_MEMPOOL_USAGE", <<>>>>
BITCOIN_MEMPOOL_UNBROADCAST == <<"BITCOIN_MEMPOOL_UNBROADCAST", <<>>>>
BITCOIN_TOTAL_BYTES_RECV == <<"BITCOIN_TOTAL_BYTES_RECV", <<>>>>
BITCOIN_TOTAL_BYTES_SENT == <<"BITCOIN_TOTAL_BYTES_SENT", <<>>>>

-----------------------------------------------------------------------------
(* The registry.  A write is a pair <<series key, value>>.                 *)

\* Gauge::set: the series holds the value last set.
GaugeSet(s, key, v) == (key :> v) @@ s

\* Counter::inc_by: the series accumulates; a counter never touched reads 0.
CounterIncBy(s, key, d) ==
    (key :> (IF key \in DOMAIN s THEN s[key] ELSE 0) + d) @@ s

\* Counter::inc.
CounterInc(s, key) == CounterIncBy(s, key, 1)

\* History: one more write to the series in this invocation.
Noted(w, key) == (key :> (IF key \in DOMAIN w THEN w[key] ELSE 0) + 1) @@ w

RECURSIVE SetAll(_, _)
\* The gauge writes `ws`, applied to the registry in program order.
SetAll(s, ws) ==
    IF ws = <<>> THEN s
    ELSE SetAll(GaugeSet(s, Head(ws)[1], Head(ws)[2]), Tail(ws))

RECURSIVE NotedAll(_, _)
NotedAll(w, ws) ==
    IF ws = <<>> THEN w ELSE NotedAll(Noted(w, Head(ws)[1]), Tail(ws))

Empty == [k \in {} |-> 0]

-----------------------------------------------------------------------------
(* Conversions applied by get_metrics.                                     *)

Digit(d) == <<"0", "1", "2", "3", "4", "5", "6", "7", "8", "9">>[d + 1]

RECURSIVE to_string(_)
\* usize::to_string: the decimal digits.
to_string(n) == IF n < 10 THEN Digit(n) ELSE to_string(n \div 10) \o Digit(n % 10)

\* Network::to_core_arg.
ToCoreArg(chain) ==
    CASE chain = "Bitcoin" -> "main"
      [] chain = "Testnet" -> "test"
      [] chain = "Signet"  -> "signet"
      [] chain = "Regtest" -> "regtest"

SatPerBtc == 10^8

\* Amount::to_btc: satoshi / 1e8, kept as whole bitcoin and the remaining satoshi.
ToBtc(sat) == [btc |-> sat \div SatPerBtc, sat |-> sat % SatPerBtc]

\* Amount::to_sat: the amount, which is held in satoshi.
ToSat(amount) == amount

-----------------------------------------------------------------------------
(* The remote node.  A node configuration fixes what every RPC call answers *)
(* when it succeeds; whether a call succeeds is decided call by call.       *)

\* StringOrStringArray.
WString(value) == [tag |-> "String", value |-> value, values |-> <<>>]
WStringArray(values) == [tag |-> "StringArray", value |-> "", values |-> values]

\* The chain all node configurations follow: block hash -> height.
BlockHeight == [h \in {"hash800", "hash801"} |-> IF h = "hash800" THEN 800 ELSE 801]

\* Block statistics by height.
BlockStats ==
    [h \in {800, 801} |->
        IF h = 800
        THEN [total_size |-> 1500, txs |-> 30, height |-> 800, total_weight |-> 4000,
              ins |-> 70, outs |-> 90, total_out |-> 250000000, total_fee |-> 1200]
        ELSE [total_size |-> 1700, txs |-> 35, height |-> 801, total_weight |-> 4400,
              ins |-> 75, outs |-> 95, total_out |-> 1234567890, total_fee |-> 1300]]

Ban(address, created, until) ==
    [address |-> address, ban_created |-> created, banned_until |-> until]

Horizons == {2, 3, 5, 20}

Fees(f2, f3, f5, f20) ==
    [h \in Horizons |-> IF h = 2 THEN f2 ELSE IF h = 3 THEN f3 ELSE IF h = 5 THEN f5 ELSE f20]

NodeA ==
    [network_info |-> [version |-> 250000, protocol_version |-> 70016, connections |-> 10,
                       connections_in |-> Some(8), connections_out |-> Some(2),
                       warnings |-> WString("")],
     blockchain_info |-> [chain |-> "Bitcoin", blocks |-> 800, difficulty |-> 50,
                          size_on_disk |-> 600, verification_progress |-> 1,
                          best_block_hash |-> "hash800"],
     uptime |-> 100,
     fee_rate |-> Fees(Some(1000), Some(900), Some(800), Some(700)),
     hashps |-> [w \in {120, 1} |-> IF w = 120 THEN 71 ELSE 72],
     banned |-> <<>>,
     chaintips |-> <<"active">>,
     mempool |-> [bytes |-> 5000, size |-> 12, usage |-> 9000, unbroadcast_count |-> None],
     net_totals |-> [total_bytes_recv |-> 111, total_bytes_sent |-> 222]]

NodeB ==
    [network_info |-> [version |-> 220000, protocol_version |-> 70015, connections |-> 0,
                       connections_in |-> None, connections_out |-> None,
                       warnings |-> WString("x")],
     blockchain_info |-> [chain |-> "Regtest", blocks |-> 801, difficulty |-> 51,
                          size_on_disk |-> 601, verification_progress |-> 0,
                          best_block_hash |-> "hash801"],
     uptime |-> 200,
     fee_rate |-> Fees(Some(1001), None, Some(801), None),
     hashps |-> [w \in {120, 1} |-> IF w = 120 THEN 81 ELSE 82],
     banned |-> <<Ban("10.0.0.1/32", 1700, 1800)>>,
     chaintips |-> <<"active", "valid-fork">>,
     mempool |-> [bytes |-> 5001, size |-> 13, usage |-> 9001, unbroadcast_count |-> Some(3)],
     net_totals |-> [total_bytes_recv |-> 112, total_bytes_sent |-> 223]]

NodeC ==
    [network_info |-> [version |-> 250000, protocol_version |-> 70016, connections |-> 7,
                       connections_in |-> Some(0), connections_out |-> None,
                       warnings |-> WStringArray(<<"a", "b", "c">>)],
     blockchain_info |-> [chain |-> "Testnet", blocks |-> 801, difficulty |-> 52,
                          size_on_disk |-> 602, verification_progress |-> 1,
                          best_block_hash |-> "hash801"],
     uptime |-> 300,
     fee_rate |-> Fees(None, Some(902), None, Some(702)),
     hashps |-> [w \in {120, 1} |-> IF w = 120 THEN 91 ELSE 92],
     banned |-> <<Ban("10.0.0.1/32", 1701, 1801), Ban("10.0.0.2/32", 1702, 1802)>>,
     chaintips |-> <<>>,
     mempool |-> [bytes |-> 5002, size |-> 14, usage |-> 9002, unbroadcast_count |-> Some(0)],
     net_totals |-> [total_bytes_recv |-> 113, total_bytes_sent |-> 224]]

\* A node whose ban list names one address twice and whose warnings are an empty list.
NodeD ==
    [network_info |-> [version |-> 220000, protocol_version |-> 70016, connections |-> 4,
                       connections_in |-> None, connections_out |-> Some(4),
                       warnings |-> WStringArray(<<>>)],
     blockchain_info |-> [chain |-> "Bitcoin", blocks |-> 800, difficulty |-> 53,
                          size_on_disk |-> 603, verification_progress |-> 1,
                          best_block_hash |-> "hash800"],
     uptime |-> 400,
     fee_rate |-> Fees(None, None, None, None),
     hashps |-> [w \in {120, 1} |-> IF w = 120 THEN 61 ELSE 62],
     banned |-> <<Ban("10.0.0.2/32", 1703, 1803), Ban("10.0.0.2/32", 1704, 1804)>>,
     chaintips |-> <<"active">>,
     mempool |-> [bytes |-> 5003, size |-> 15, usage |-> 9003, unbroadcast_count |-> None],
     net_totals |-> [total_bytes_recv |-> 114, total_bytes_sent |-> 225]]

NodeIds == {"A", "B", "C", "D"}

Node(id) ==
    CASE id = "A" -> NodeA
      [] id = "B" -> NodeB
      [] id = "C" -> NodeC
      [] id = "D" -> NodeD

\* bitcoincore_rpc::Error values a call can fail with.
Errors == {[kind |-> "JsonRpc", cause |-> "RPC error response"],
           [kind |-> "Io", cause |-> "connection refused"]}

\* Display of bitcoincore_rpc::Error, as serve_req puts it in the body.
Display(e) ==
    (CASE e.kind = "JsonRpc" -> "JSON-RPC error: "
       [] e.kind = "Io"      -> "I/O error: ") \o e.cause

Methods == {"GET", "POST"}
Paths == {"/metrics", "/"}

-----------------------------------------------------------------------------
(* serve_req: routing.                                                     *)

Ok == [ok |-> TRUE, err |-> None]
Err(e) == [ok |-> FALSE, err |-> Some(e)]

EmptyBody == [text |-> "", samples |-> {}]

Response(status, content_type, body) ==
    [status |-> status, content_type |-> content_type, body |-> body]

\* prometheus::gather() and TextEncoder::encode: one sample <<name, labels, value>> per series.
Render(s) == {<<k[1], k[2], s[k]>> : k \in DOMAIN s}

Init ==
    /\ pc = [p \in Procs |-> "idle"]
    /\ req = [p \in Procs |-> None]
    /\ node = [p \in Procs |-> None]
    /\ networkinfo = [p \in Procs |-> None]
    /\ blockchaininfo = [p \in Procs |-> None]
    /\ block_info = [p \in Procs |-> None]
    /\ result = [p \in Procs |-> None]
    /\ resp = [p \in Procs |-> None]
    /\ sink = Empty
    /\ calls = [p \in Procs |-> <<>>]
    /\ args = [p \in Procs |-> <<>>]
    /\ wrote = [p \in Procs |-> Empty]
    /\ pre = [p \in Procs |-> Empty]
    /\ invoked = [p \in Procs |-> 0]
    /\ rendered = [p \in Procs |-> 0]
    /\ raised = [p \in Procs |-> <<>>]
    /\ nreq = 0

\* The listener hands a request to serve_req; the node is in a configuration of `ids`.
Arrive(p, ids) ==
    /\ pc[p] \in {"idle", "done"}
    /\ nreq < MaxRequests
    /\ \E m \in Methods, path \in Paths, n \in ids :
        /\ req' = [req EXCEPT ![p] = Some([method |-> m, path |-> path])]
        /\ node' = [node EXCEPT ![p] = Some(n)]
    /\ pc' = [pc EXCEPT ![p] = "serve_req"]
    /\ nreq' = nreq + 1
    /\ result' = [result EXCEPT ![p] = None]
    /\ resp' = [resp EXCEPT ![p] = None]
    /\ calls' = [calls EXCEPT ![p] = <<>>]
    /\ args' = [args EXCEPT ![p] = <<>>]
    /\ wrote' = [wrote EXCEPT ![p] = Empty]
    /\ pre' = [pre EXCEPT ![p] = sink]
    /\ invoked' = [invoked EXCEPT ![p] = 0]
    /\ rendered' = [rendered EXCEPT ![p] = 0]
    /\ raised' = [raised EXCEPT ![p] = <<>>]
    /\ UNCHANGED <<networkinfo, blockchaininfo, block_info, sink>>

\* A request arrives; the node is in any of the configurations.
Accept(p) == Arrive(p, NodeIds)

\* Unmatched, with the two tests joined by `&&`.
UnmatchedBoth(r) == r.method # "GET" /\ r.path # "/metrics"

\* The condition of the `if` at the top of serve_req.
Unmatched(r) == r.method # "GET" \/ r.path # "/metrics"

\* serve_req up to the call of get_metrics: an unmatched request is answered at once.
Route(p) ==
    /\ pc[p] = "serve_req"
    /\ IF Unmatched(Unwrap(req[p]))
       THEN /\ resp' = [resp EXCEPT ![p] = Some(Response(404, None, EmptyBody))]
            /\ pc' = [pc EXCEPT ![p] = "done"]
            /\ UNCHANGED <<invoked, pre>>
       ELSE /\ pc' = [pc EXCEPT ![p] = "get_network_info"]
            /\ invoked' = [invoked EXCEPT ![p] = @ + 1]
            /\ pre' = [pre EXCEPT ![p] = sink]
            /\ UNCHANGED resp
    /\ UNCHANGED <<req, node, networkinfo, blockchaininfo, block_info, result,
                   sink, calls, args, wrote, rendered, raised, nreq>>

-----------------------------------------------------------------------------
(* get_metrics: what each step writes.                                     *)

\* Lines 25-28.
BlockchainWrites(bi) ==
    << <<BITCOIN_BLOCKS, bi.blocks>>,
       <<BITCOIN_DIFFICULTY, bi.difficulty>>,
       <<BITCOIN_SIZE_ON_DISK, bi.size_on_disk>>,
       <<BITCOIN_VERIFICATION_PROGRESS, bi.verification_progress>> >>

\* Lines 32-38.
\* UptimeWrites, with the version and the protocol version in each other's place.
UptimeWritesSwapped(ni, bi, uptime) ==
    << <<BITCOIN_UPTIME(to_string(ni.protocol_version), to_string(ni.version),
                        ToCoreArg(bi.chain)), uptime>> >>

UptimeWrites(ni, bi, uptime) ==
    << <<BITCOIN_UPTIME(to_string(ni.version), to_string(ni.protocol_version),
                        ToCoreArg(bi.chain)), uptime>> >>

\* Lines 45-52.
BlockStatsWrites(st) ==
    << <<BITCOIN_LATEST_BLOCK_SIZE, st.total_size>>,
       <<BITCOIN_LATEST_BLOCK_TXS, st.txs>>,
       <<BITCOIN_LATEST_BLOCK_HEIGHT, st.height>>,
       <<BITCOIN_LATEST_BLOCK_WEIGHT, st.total_weight>>,
       <<BITCOIN_LATEST_BLOCK_INPUTS, st.ins>>,
       <<BITCOIN_LATEST_BLOCK_OUTPUTS, st.outs>>,
       <<BITCOIN_LATEST_BLOCK_VALUE, ToBtc(st.total_out)>>,
       <<BITCOIN_LATEST_BLOCK_FEE, ToBtc(st.total_fee)>> >>

\* PeerWrites, with an absent connection count reported as zero.
PeerWritesDefaulted(ni) ==
    << <<BITCOIN_PEERS, ni.connections>>,
       <<BITCOIN_CONN_IN, IF IsSome(ni.connections_in) THEN Unwrap(ni.connections_in) ELSE 0>>,
       <<BITCOIN_CONN_OUT, IF IsSome(ni.connections_out) THEN Unwrap(ni.connections_out) ELSE 0>> >>

\* Lines 56-63.
PeerWrites(ni) ==
    << <<BITCOIN_PEERS, ni.connections>> >>
    \o (IF IsSome(ni.connections_in)
        THEN << <<BITCOIN_CONN_IN, Unwrap(ni.connections_in)>> >> ELSE <<>>)
    \o (IF IsSome(ni.connections_out)
        THEN << <<BITCOIN_CONN_OUT, Unwrap(ni.connections_out)>> >> ELSE <<>>)

\* WarningsIncs, with a list of warnings coerced to one warning.
WarningsIncsCoerced(w) ==
    IF w.tag = "String" /\ w.value # "" THEN <<1>>
    ELSE IF w.tag = "StringArray" THEN <<1>>
    ELSE <<>>

\* Lines 65-71: the amounts the warnings counter is incremented by (none: not touched).
WarningsIncs(w) ==
    IF w.tag = "String" /\ w.value # "" THEN <<1>>
    ELSE IF w.tag = "StringArray" THEN <<Len(w.values)>>
    ELSE <<>>

SmartFeeGauge(h) ==
    CASE h = 2 -> SMART_FEE_2 [] h = 3 -> SMART_FEE_3
      [] h = 5 -> SMART_FEE_5 [] h = 20 -> SMART_FEE_20

\* SmartFeeWrites, with a missing estimate reported as a rate of zero.
SmartFeeWritesDefaulted(h, fee_rate) ==
    << <<SmartFeeGauge(h), IF IsSome(fee_rate) THEN ToSat(Unwrap(fee_rate)) ELSE 0>> >>

\* Lines 76-78 (and 83-85, 90-92, 97-99).
SmartFeeWrites(h, fee_rate) ==
    IF IsSome(fee_rate) THEN << <<SmartFeeGauge(h), ToSat(Unwrap(fee_rate))>> >> ELSE <<>>

\* HashpsWrites, with the second block a copy of the first that still names BITCOIN_HASHPS.
HashpsWritesCopied(window, hashps) == << <<BITCOIN_HASHPS, hashps>> >>

\* Lines 104 and 109.
HashpsWrites(window, hashps) ==
    << <<IF window = 120 THEN BITCOIN_HASHPS ELSE BITCOIN_HASHPS_1, hashps>> >>

RECURSIVE BanWritesCopied(_)
\* BanWrites, with the expiry written to the creation series of the entry.
BanWritesCopied(banned) ==
    IF banned = <<>> THEN <<>>
    ELSE << <<BITCOIN_BAN_CREATED(Head(banned).address, "manually added"),
              Head(banned).ban_created>>,
            <<BITCOIN_BAN_CREATED(Head(banned).address, "manually added"),
              Head(banned).banned_until>> >>
         \o BanWritesCopied(Tail(banned))

RECURSIVE BanWrites(_)
\* Lines 114-121.
BanWrites(banned) ==
    IF banned = <<>> THEN <<>>
    ELSE << <<BITCOIN_BAN_CREATED(Head(banned).address, "manually added"),
              Head(banned).ban_created>>,
            <<BITCOIN_BANNED_UNTIL(Head(banned).address, "manually added"),
              Head(banned).banned_until>> >>
         \o BanWrites(Tail(banned))

\* Line 126.
ChainTipsWrites(chaintips) == << <<BITCOIN_NUM_CHAINTIPS, Len(chaintips)>> >>

\* Option::unwrap_or_default.
UnwrapOrDefault(o) == IF IsSome(o) THEN Unwrap(o) ELSE 0

\* MempoolWrites, with the unbroadcast count set only when the field is present.
MempoolWritesOptional(mempool) ==
    << <<BITCOIN_MEMPOOL_BYTES, mempool.bytes>>,
       <<BITCOIN_MEMPOOL_SIZE, mempool.size>>,
       <<BITCOIN_MEMPOOL_USAGE, mempool.usage>> >>
    \o (IF IsSome(mempool.unbroadcast_count)
        THEN << <<BITCOIN_MEMPOOL_UNBROADCAST, Unwrap(mempool.unbroadcast_count)>> >>
        ELSE <<>>)

\* Lines 131-134.
MempoolWrites(mempool) ==
    << <<BITCOIN_MEMPOOL_BYTES, mempool.bytes>>,
       <<BITCOIN_MEMPOOL_SIZE, mempool.size>>,
       <<BITCOIN_MEMPOOL_USAGE, mempool.usage>>,
       <<BITCOIN_MEMPOOL_UNBROADCAST, UnwrapOrDefault(mempool.unbroadcast_count)>> >>

\* Lines 139-140.
NetTotalsWrites(netotals) ==
    << <<BITCOIN_TOTAL_BYTES_RECV, netotals.total_bytes_recv>>,
       <<BITCOIN_TOTAL_BYTES_SENT, netotals.total_bytes_sent>> >>

-----------------------------------------------------------------------------
(* get_metrics: the calls.                                                 *)

\* The RPC call `op` goes out.
\* The call `op` goes out with the argument `arg` (<<>> for a call without one).
Issue(p, op, arg) ==
    /\ calls' = [calls EXCEPT ![p] = Append(@, op)]
    /\ args' = [args EXCEPT ![p] = Append(@, arg)]

\* Abort, but the failure also empties the registry.
AbortClearing(p, e) ==
    /\ result' = [result EXCEPT ![p] = Some(Err(e))]
    /\ raised' = [raised EXCEPT ![p] = Append(@, [op |-> pc[p], error |-> e])]
    /\ pc' = [pc EXCEPT ![p] = "match"]
    /\ networkinfo' = [networkinfo EXCEPT ![p] = None]
    /\ blockchaininfo' = [blockchaininfo EXCEPT ![p] = None]
    /\ block_info' = [block_info EXCEPT ![p] = None]
    /\ sink' = Empty
    /\ UNCHANGED wrote

\* Abort, but the failure undoes what the invocation wrote.
AbortRollingBack(p, e) ==
    /\ result' = [result EXCEPT ![p] = Some(Err(e))]
    /\ raised' = [raised EXCEPT ![p] = Append(@, [op |-> pc[p], error |-> e])]
    /\ pc' = [pc EXCEPT ![p] = "match"]
    /\ networkinfo' = [networkinfo EXCEPT ![p] = None]
    /\ blockchaininfo' = [blockchaininfo EXCEPT ![p] = None]
    /\ block_info' = [block_info EXCEPT ![p] = None]
    /\ sink' = pre[p]
    /\ UNCHANGED wrote

\* Abort, but get_metrics returns an error of its own in place of the call's.
AbortMasking(p, e) ==
    /\ result' = [result EXCEPT ![p] =
           Some(Err([kind |-> "Io", cause |-> "collection failed"]))]
    /\ raised' = [raised EXCEPT ![p] = Append(@, [op |-> pc[p], error |-> e])]
    /\ pc' = [pc EXCEPT ![p] = "match"]
    /\ networkinfo' = [networkinfo EXCEPT ![p] = None]
    /\ blockchaininfo' = [blockchaininfo EXCEPT ![p] = None]
    /\ block_info' = [block_info EXCEPT ![p] = None]
    /\ UNCHANGED <<sink, wrote>>

\* `?` on Err(e): get_metrics returns the error; its locals go out of scope.
Abort(p, e) ==
    /\ result' = [result EXCEPT ![p] = Some(Err(e))]
    /\ raised' = [raised EXCEPT ![p] = Append(@, [op |-> pc[p], error |-> e])]
    /\ pc' = [pc EXCEPT ![p] = "match"]
    /\ networkinfo' = [networkinfo EXCEPT ![p] = None]
    /\ blockchaininfo' = [blockchaininfo EXCEPT ![p] = None]
    /\ block_info' = [block_info EXCEPT ![p] = None]
    /\ UNCHANGED <<sink, wrote>>

\* `?` on a value: the gauge writes `ws` that follow are applied in order.
Proceed(p, next, ws) ==
    /\ sink' = SetAll(sink, ws)
    /\ wrote' = [wrote EXCEPT ![p] = NotedAll(@, ws)]
    /\ pc' = [pc EXCEPT ![p] = next]
    /\ UNCHANGED raised

Frame == UNCHANGED <<req, node, resp, pre, invoked, rendered, nreq>>

Answer(p) == Node(Unwrap(node[p]))

\* get_network_info, with the peer gauges written as soon as the answer is there.
get_network_infoWriting(p) ==
    /\ pc[p] = "get_network_info"
    /\ Issue(p, "get_network_info", <<>>)
    /\ \/ \E e \in Errors : Abort(p, e)
       \/ /\ networkinfo' = [networkinfo EXCEPT ![p] = Some(Answer(p).network_info)]
          /\ Proceed(p, "get_blockchain_info", PeerWrites(Answer(p).network_info))
          /\ UNCHANGED <<blockchaininfo, block_info, result>>
    /\ Frame

\* Line 22.
get_network_info(p) ==
    /\ pc[p] = "get_network_info"
    /\ Issue(p, "get_network_info", <<>>)
    /\ \/ \E e \in Errors : Abort(p, e)
       \/ /\ networkinfo' = [networkinfo EXCEPT ![p] = Some(Answer(p).network_info)]
          /\ Proceed(p, "get_blockchain_info", <<>>)
          /\ UNCHANGED <<blockchaininfo, block_info, result>>
    /\ Frame

\* Lines 24-28.
get_blockchain_info(p) ==
    /\ pc[p] = "get_blockchain_info"
    /\ Issue(p, "get_blockchain_info", <<>>)
    /\ \/ \E e \in Errors : Abort(p, e)
       \/ /\ blockchaininfo' = [blockchaininfo EXCEPT ![p] = Some(Answer(p).blockchain_info)]
          /\ Proceed(p, "uptime", BlockchainWrites(Answer(p).blockchain_info))
          /\ UNCHANGED <<networkinfo, block_info, result>>
    /\ Frame

\* Lines 30-39.
uptime(p) ==
    /\ pc[p] = "uptime"
    /\ Issue(p, "uptime", <<>>)
    /\ \/ \E e \in Errors : Abort(p, e)
       \/ /\ Proceed(p, "get_block_info",
                     UptimeWrites(Unwrap(networkinfo[p]), Unwrap(blockchaininfo[p]),
                                  Answer(p).uptime))
          /\ UNCHANGED <<networkinfo, blockchaininfo, block_info, result>>
    /\ Frame

\* Line 42.
get_block_info(p) ==
    /\ pc[p] = "get_block_info"
    /\ Issue(p, "get_block_info", <<Unwrap(blockchaininfo[p]).best_block_hash>>)
    /\ \/ \E e \in Errors : Abort(p, e)
       \/ /\ block_info' = [block_info EXCEPT ![p] =
                 Some([height |-> BlockHeight[Unwrap(blockchaininfo[p]).best_block_hash]])]
          /\ Proceed(p, "get_block_stats", <<>>)
          /\ UNCHANGED <<networkinfo, blockchaininfo, result>>
    /\ Frame

\* WarningsCounted, with the counter stored like a gauge instead of added to.
WarningsCountedStored(s, w) ==
    IF WarningsIncs(w) = <<>> THEN s ELSE GaugeSet(s, BITCOIN_WARNINGS, WarningsIncs(w)[1])

\* The warnings counter after lines 65-71.
WarningsCounted(s, w) ==
    IF WarningsIncs(w) = <<>> THEN s ELSE CounterIncBy(s, BITCOIN_WARNINGS, WarningsIncs(w)[1])

\* Lines 43-72: block statistics, then the peer gauges and the warnings counter, which
\* need no further call; the scopes of networkinfo and blockchaininfo end here.
get_block_stats(p) ==
    /\ pc[p] = "get_block_stats"
    /\ Issue(p, "get_block_stats", <<Unwrap(block_info[p]).height>>)
    /\ \/ \E e \in Errors : Abort(p, e)
       \/ LET ni == Unwrap(networkinfo[p])
              ws == BlockStatsWrites(BlockStats[Unwrap(block_info[p]).height])
                    \o PeerWrites(ni)
          IN /\ sink' = WarningsCounted(SetAll(sink, ws), ni.warnings)
             /\ wrote' = [wrote EXCEPT ![p] =
                    IF WarningsIncs(ni.warnings) = <<>> THEN NotedAll(@, ws)
                    ELSE Noted(NotedAll(@, ws), BITCOIN_WARNINGS)]
             /\ pc' = [pc EXCEPT ![p] = "estimate_smart_fee_2"]
             /\ networkinfo' = [networkinfo EXCEPT ![p] = None]
             /\ blockchaininfo' = [blockchaininfo EXCEPT ![p] = None]
             /\ block_info' = [block_info EXCEPT ![p] = None]
             /\ UNCHANGED <<result, raised>>
    /\ Frame

SmartFeePc(h) == "estimate_smart_fee_" \o to_string(h)

\* AfterSmartFee, with the block for horizon 5 left out.
AfterSmartFeeSkipping(h) ==
    CASE h = 2 -> SmartFeePc(3) [] h = 3 -> SmartFeePc(20) [] h = 5 -> SmartFeePc(20)
      [] h = 20 -> "get_network_hash_ps_120"

\* The call that follows the fee estimate for horizon h.
AfterSmartFee(h) ==
    CASE h = 2 -> SmartFeePc(3) [] h = 3 -> SmartFeePc(5) [] h = 5 -> SmartFeePc(20)
      [] h = 20 -> "get_network_hash_ps_120"

\* Lines 74-100, one block per horizon.
estimate_smart_fee(p, h) ==
    /\ pc[p] = SmartFeePc(h)
    /\ Issue(p, SmartFeePc(h), <<h>>)
    /\ \/ \E e \in Errors : Abort(p, e)
       \/ /\ Proceed(p, AfterSmartFee(h), SmartFeeWrites(h, Answer(p).fee_rate[h]))
          /\ UNCHANGED <<networkinfo, blockchaininfo, block_info, result>>
    /\ Frame

HashpsPc(window) == "get_network_hash_ps_" \o to_string(window)

\* Lines 102-110, one block per window.
get_network_hash_ps(p, window) ==
    /\ pc[p] = HashpsPc(window)
    /\ Issue(p, HashpsPc(window), <<window>>)
    /\ \/ \E e \in Errors : Abort(p, e)
       \/ /\ Proceed(p, IF window = 120 THEN HashpsPc(1) ELSE "list_banned",
                     HashpsWrites(window, Answer(p).hashps[window]))
          /\ UNCHANGED <<networkinfo, blockchaininfo, block_info, result>>
    /\ Frame

\* list_banned, but the ban series of the registry are reset before the loop.
list_bannedResetting(p) ==
    /\ pc[p] = "list_banned"
    /\ Issue(p, "list_banned", <<>>)
    /\ \/ \E e \in Errors : Abort(p, e)
       \/ LET ws == BanWrites(Answer(p).banned)
              kept == {k \in DOMAIN sink :
                          k[1] \notin {"BITCOIN_BAN_CREATED", "BITCOIN_BANNED_UNTIL"}}
          IN /\ sink' = SetAll([k \in kept |-> sink[k]], ws)
             /\ wrote' = [wrote EXCEPT ![p] = NotedAll(@, ws)]
             /\ pc' = [pc EXCEPT ![p] = "get_chain_tips"]
             /\ UNCHANGED <<networkinfo, blockchaininfo, block_info, result, raised>>
    /\ Frame

\* Lines 112-122.
list_banned(p) ==
    /\ pc[p] = "list_banned"
    /\ Issue(p, "list_banned", <<>>)
    /\ \/ \E e \in Errors : Abort(p, e)
       \/ /\ Proceed(p, "get_chain_tips", BanWrites(Answer(p).banned))
          /\ UNCHANGED <<networkinfo, blockchaininfo, block_info, result>>
    /\ Frame

\* Lines 124-127.
get_chain_tips(p) ==
    /\ pc[p] = "get_chain_tips"
    /\ Issue(p, "get_chain_tips", <<>>)
    /\ \/ \E e \in Errors : Abort(p, e)
       \/ /\ Proceed(p, "get_mempool_info", ChainTipsWrites(Answer(p).chaintips))
          /\ UNCHANGED <<networkinfo, blockchaininfo, block_info, result>>
    /\ Frame

\* Lines 129-135.
get_mempool_info(p) ==
    /\ pc[p] = "get_mempool_info"
    /\ Issue(p, "get_mempool_info", <<>>)
    /\ \/ \E e \in Errors : Abort(p, e)
       \/ /\ Proceed(p, "get_net_totals", MempoolWrites(Answer(p).mempool))
          /\ UNCHANGED <<networkinfo, blockchaininfo, block_info, result>>
    /\ Frame

\* get_net_totals, with only the first of the two gauges set.
get_net_totalsHalf(p) ==
    /\ pc[p] = "get_net_totals"
    /\ Issue(p, "get_net_totals", <<>>)
    /\ \/ \E e \in Errors : Abort(p, e)
       \/ /\ Proceed(p, "match", SubSeq(NetTotalsWrites(Answer(p).net_totals), 1, 1))
          /\ result' = [result EXCEPT ![p] = Some(Ok)]
          /\ UNCHANGED <<networkinfo, blockchaininfo, block_info>>
    /\ Frame

\* Lines 137-143: the last call; on success get_metrics returns Ok(()).
get_net_totals(p) ==
    /\ pc[p] = "get_net_totals"
    /\ Issue(p, "get_net_totals", <<>>)
    /\ \/ \E e \in Errors : Abort(p, e)
       \/ /\ Proceed(p, "match", NetTotalsWrites(Answer(p).net_totals))
          /\ result' = [result EXCEPT ![p] = Some(Ok)]
          /\ UNCHANGED <<networkinfo, blockchaininfo, block_info>>
    /\ Frame

\* TextEncoder::format_type.
TEXT_FORMAT == "text/plain; version=0.0.4"

\* Respond, but the registry is rendered whatever get_metrics returned.
RespondRendering(p) ==
    /\ pc[p] = "match"
    /\ resp' = [resp EXCEPT ![p] =
           Some(Response(200, Some(TEXT_FORMAT), [text |-> "", samples |-> Render(sink)]))]
    /\ rendered' = [rendered EXCEPT ![p] = @ + 1]
    /\ pc' = [pc EXCEPT ![p] = "done"]
    /\ UNCHANGED <<req, node, networkinfo, blockchaininfo, block_info, result,
                   sink, calls, args, wrote, pre, invoked, raised, nreq>>

\* Respond, but a failed collection ends the handler task without a response.
RespondPanicking(p) ==
    /\ pc[p] = "match"
    /\ IF Unwrap(result[p]).ok
       THEN /\ resp' = [resp EXCEPT ![p] =
                   Some(Response(200, Some(TEXT_FORMAT),
                                 [text |-> "", samples |-> Render(sink)]))]
            /\ rendered' = [rendered EXCEPT ![p] = @ + 1]
            /\ pc' = [pc EXCEPT ![p] = "done"]
       ELSE /\ pc' = [pc EXCEPT ![p] = "panicked"]
            /\ UNCHANGED <<resp, rendered>>
    /\ UNCHANGED <<req, node, networkinfo, blockchaininfo, block_info, result,
                   sink, calls, args, wrote, pre, invoked, raised, nreq>>

\* Lines 160-179: the match on the result of get_metrics.
Respond(p) ==
    /\ pc[p] = "match"
    /\ IF Unwrap(result[p]).ok
       THEN /\ resp' = [resp EXCEPT ![p] =
                   Some(Response(200, Some(TEXT_FORMAT),
                                 [text |-> "", samples |-> Render(sink)]))]
            /\ rendered' = [rendered EXCEPT ![p] = @ + 1]
       ELSE /\ resp' = [resp EXCEPT ![p] =
                   Some(Response(404, Some("text/plain"),
                                 [text |-> Display(Unwrap(Unwrap(result[p]).err)),
                                  samples |-> {}]))]
            /\ UNCHANGED rendered
    /\ pc' = [pc EXCEPT ![p] = "done"]
    /\ UNCHANGED <<req, node, networkinfo, blockchaininfo, block_info, result,
                   sink, calls, args, wrote, pre, invoked, raised, nreq>>

\* A step of serve_req on the request in hand.
Serve(p) ==
    \/ Route(p)
    \/ get_network_info(p)
    \/ get_blockchain_info(p)
    \/ uptime(p)
    \/ get_block_info(p)
    \/ get_block_stats(p)
    \/ \E h \in Horizons : estimate_smart_fee(p, h)
    \/ \E w \in {120, 1} : get_network_hash_ps(p, w)
    \/ list_banned(p)
    \/ get_chain_tips(p)
    \/ get_mempool_info(p)
    \/ get_net_totals(p)
    \/ Respond(p)

Handler(p) == Accept(p) \/ Serve(p)

\* Requests are served one at a time.
Next == Handler("h1")

Spec == Init /\ [][Next]_vars

\* Every remote call returns and the handler task is scheduled: a request in hand
\* keeps taking steps.
SpecReturning == Init /\ [][Next]_vars /\ WF_vars(Serve("h1"))

\* The node configurations scraped when requests overlap.
OverlappingNodeIds == {"B", "C"}

\* Requests are served by two handler tasks that may overlap.
NextOverlapping == \E p \in Procs : Arrive(p, OverlappingNodeIds) \/ Serve(p)

SpecOverlapping == Init /\ [][NextOverlapping]_vars

-----------------------------------------------------------------------------
(* Vocabulary of the properties.                                           *)

Last(q) == q[Len(q)]

\* The handler has a request in hand.
Serving(p) == IsSome(req[p])

\* The request is a GET of the metrics path.
IsScrape(p) == Unwrap(req[p]).method = "GET" /\ Unwrap(req[p]).path = "/metrics"

\* get_metrics has returned to serve_req for the current request.
Returned(p) == IsSome(result[p])
Succeeded(p) == Returned(p) /\ Unwrap(result[p]).ok
Failed(p) == Returned(p) /\ ~Unwrap(result[p]).ok
TheError(p) == Unwrap(Unwrap(result[p]).err)

\* The current invocation ended in the failure of the call `op`.
FailedAt(p, op) == Failed(p) /\ calls[p] # <<>> /\ Last(calls[p]) = op

\* Every series of a metric in `names` is as it was when the invocation started.
Kept(p, names) ==
    \A k \in DOMAIN sink \cup DOMAIN pre[p] :
        k[1] \in names => /\ k \in DOMAIN sink
                          /\ k \in DOMAIN pre[p]
                          /\ sink[k] = pre[p][k]

\* The invocation has written no series of a metric in `names`.
Unwritten(p, names) == \A k \in DOMAIN wrote[p] : k[1] \notin names

\* The order of the remote calls of one collection.
CallOrder ==
    <<"get_network_info", "get_blockchain_info", "uptime", "get_block_info",
      "get_block_stats", "estimate_smart_fee_2", "estimate_smart_fee_3",
      "estimate_smart_fee_5", "estimate_smart_fee_20", "get_network_hash_ps_120",
      "get_network_hash_ps_1", "list_banned", "get_chain_tips", "get_mempool_info",
      "get_net_totals">>

\* The metrics each step writes once its call has succeeded.
StepMetrics(op) ==
    CASE op = "get_blockchain_info" ->
             {"BITCOIN_BLOCKS", "BITCOIN_DIFFICULTY", "BITCOIN_SIZE_ON_DISK",
              "BITCOIN_VERIFICATION_PROGRESS"}
      [] op = "uptime" -> {"BITCOIN_UPTIME"}
      [] op = "get_block_stats" ->
             {"BITCOIN_LATEST_BLOCK_SIZE", "BITCOIN_LATEST_BLOCK_TXS",
              "BITCOIN_LATEST_BLOCK_HEIGHT", "BITCOIN_LATEST_BLOCK_WEIGHT",
              "BITCOIN_LATEST_BLOCK_INPUTS", "BITCOIN_LATEST_BLOCK_OUTPUTS",
              "BITCOIN_LATEST_BLOCK_VALUE", "BITCOIN_LATEST_BLOCK_FEE",
              "BITCOIN_PEERS", "BITCOIN_CONN_IN", "BITCOIN_CONN_OUT", "BITCOIN_WARNINGS"}
      [] op = "estimate_smart_fee_2" -> {"SMART_FEE_2"}
      [] op = "estimate_smart_fee_3" -> {"SMART_FEE_3"}
      [] op = "estimate_smart_fee_5" -> {"SMART_FEE_5"}
      [] op = "estimate_smart_fee_20" -> {"SMART_FEE_20"}
      [] op = "get_network_hash_ps_120" -> {"BITCOIN_HASHPS"}
      [] op = "get_network_hash_ps_1" -> {"BITCOIN_HASHPS_1"}
      [] op = "list_banned" -> {"BITCOIN_BAN_CREATED", "BITCOIN_BANNED_UNTIL"}
      [] op = "get_chain_tips" -> {"BITCOIN_NUM_CHAINTIPS"}
      [] op = "get_mempool_info" ->
             {"BITCOIN_MEMPOOL_BYTES", "BITCOIN_MEMPOOL_SIZE", "BITCOIN_MEMPOOL_USAGE",
              "BITCOIN_MEMPOOL_UNBROADCAST"}
      [] op = "get_net_totals" -> {"BITCOIN_TOTAL_BYTES_RECV", "BITCOIN_TOTAL_BYTES_SENT"}
      [] OTHER -> {}

\* By position i of CallOrder, the metrics written by the steps from i on.
MetricsFromAll == [i \in 1..Len(CallOrder) |->
                     UNION {StepMetrics(CallOrder[j]) : j \in i..Len(CallOrder)}]
MetricsFrom(i) == MetricsFromAll[i]

\* The metrics written by the steps before position i of CallOrder.
MetricsBefore(i) == UNION {StepMetrics(CallOrder[j]) : j \in 1..(i - 1)}

\* The text is some prefix followed by the description.
ErrorPrefixes == {"", "JSON-RPC error: ", "I/O error: "}
Contains(text, description) == \E a \in ErrorPrefixes : text = a \o description

-----------------------------------------------------------------------------
(* C1: when the blockchain-info call fails, the invocation has updated no  *)
(* gauge of any later step (uptime, latest block, peers, connections, fee  *)
(* horizons, hash rate, ban list, chain tips, mempool, net totals): none is*)
(* written and each holds what it held before; and the scrape response is  *)
(* 404 with a body containing the failure's description.                   *)
C1_BlockchainInfoFailure ==
    \A p \in Procs :
        FailedAt(p, "get_blockchain_info") =>
            /\ Unwritten(p, MetricsFrom(3) \ {"BITCOIN_WARNINGS"})
            /\ Kept(p, MetricsFrom(3) \ {"BITCOIN_WARNINGS"})
            /\ pc[p] = "done" =>
                   /\ Unwrap(resp[p]).status = 404
                   /\ Contains(Unwrap(resp[p]).body.text, TheError(p).cause)

\* A scrape that failed at blockchain info while the registry held mempool and
\* net-total gauges of an earlier scrape of a node with other values.
C1_Witness ==
    /\ pc["h1"] = "done"
    /\ FailedAt("h1", "get_blockchain_info")
    /\ BITCOIN_MEMPOOL_BYTES \in DOMAIN sink
    /\ BITCOIN_TOTAL_BYTES_SENT \in DOMAIN sink
    /\ sink[BITCOIN_MEMPOOL_BYTES] # Answer("h1").mempool.bytes

(* C2: a request that is not GET /metrics gets 404 with an empty body; the *)
(* collector is never invoked for it, no remote call goes out and the      *)
(* registry stays as it was, whichever node configuration is behind it.    *)
C2_RouteMismatch ==
    \A p \in Procs :
        (Serving(p) /\ ~IsScrape(p)) =>
            /\ pc[p] \in {"serve_req", "done"}
            /\ invoked[p] = 0
            /\ calls[p] = <<>>
            /\ wrote[p] = Empty
            /\ sink = pre[p]
            /\ ~Returned(p)
            /\ pc[p] = "done" => resp[p] = Some(Response(404, None, EmptyBody))

\* POST /metrics answered while the registry holds an earlier scrape.
C2_Witness ==
    /\ pc["h1"] = "done"
    /\ Unwrap(req["h1"]) = [method |-> "POST", path |-> "/metrics"]
    /\ BITCOIN_BLOCKS \in DOMAIN sink

(* C3: a GET /metrics request invokes the collector exactly once; the      *)
(* response is 200 with the rendered registry exactly when the invocation  *)
(* succeeded, the registry is rendered only after the invocation returned, *)
(* and a failed invocation gives 404 with the error's display string as    *)
(* plain text and no rendering.                                            *)
C3_ScrapeResponse ==
    \A p \in Procs :
        (Serving(p) /\ IsScrape(p)) =>
            /\ invoked[p] <= 1
            /\ rendered[p] > 0 => Succeeded(p)
            /\ pc[p] = "done" =>
                   /\ invoked[p] = 1
                   /\ Len(SelectSeq(calls[p], LAMBDA c : c = "get_network_info")) = 1
                   /\ Returned(p)
                   /\ Unwrap(resp[p]).status = 200 <=> Succeeded(p)
                   /\ Succeeded(p) =>
                          /\ resp[p] = Some(Response(200, Some(TEXT_FORMAT),
                                                     [text |-> "", samples |-> Render(sink)]))
                          /\ rendered[p] = 1
                   /\ Failed(p) =>
                          /\ resp[p] = Some(Response(404, Some("text/plain"),
                                                     [text |-> Display(TheError(p)),
                                                      samples |-> {}]))
                          /\ rendered[p] = 0

\* A failed scrape answered while the registry holds series of an earlier scrape.
C3_Witness ==
    /\ pc["h1"] = "done"
    /\ Failed("h1")
    /\ BITCOIN_BLOCKS \in DOMAIN sink
    /\ Unwrap(resp["h1"]).body.samples = {}

\* The gauge writes a collection against node configuration n makes at the step of
\* the call `op`, when that call succeeds.
StepWrites(n, op) ==
    LET a == Node(n) IN
    CASE op = "get_blockchain_info" -> BlockchainWrites(a.blockchain_info)
      [] op = "uptime" -> UptimeWrites(a.network_info, a.blockchain_info, a.uptime)
      [] op = "get_block_stats" ->
             BlockStatsWrites(BlockStats[BlockHeight[a.blockchain_info.best_block_hash]])
             \o PeerWrites(a.network_info)
      [] op = "estimate_smart_fee_2" -> SmartFeeWrites(2, a.fee_rate[2])
      [] op = "estimate_smart_fee_3" -> SmartFeeWrites(3, a.fee_rate[3])
      [] op = "estimate_smart_fee_5" -> SmartFeeWrites(5, a.fee_rate[5])
      [] op = "estimate_smart_fee_20" -> SmartFeeWrites(20, a.fee_rate[20])
      [] op = "get_network_hash_ps_120" -> HashpsWrites(120, a.hashps[120])
      [] op = "get_network_hash_ps_1" -> HashpsWrites(1, a.hashps[1])
      [] op = "list_banned" -> BanWrites(a.banned)
      [] op = "get_chain_tips" -> ChainTipsWrites(a.chaintips)
      [] op = "get_mempool_info" -> MempoolWrites(a.mempool)
      [] op = "get_net_totals" -> NetTotalsWrites(a.net_totals)
      [] OTHER -> <<>>

RECURSIVE WritesBefore(_, _)
\* The gauge writes of the steps before position i of CallOrder, in order.
WritesBefore(n, i) ==
    IF i <= 1 THEN <<>> ELSE WritesBefore(n, i - 1) \o StepWrites(n, CallOrder[i - 1])

\* WritesBefore, by node configuration and position.
WritesBeforeAll == [n \in NodeIds |-> [i \in 1..Len(CallOrder) |-> WritesBefore(n, i)]]

\* The registry `s` after the steps before position i of a collection against n.
AfterSteps(s, n, i) ==
    IF i > 5 THEN WarningsCounted(SetAll(s, WritesBeforeAll[n][i]),
                                  Node(n).network_info.warnings)
    ELSE SetAll(s, WritesBeforeAll[n][i])

(* C4: for every step k, when the call of step k fails no later call is    *)
(* issued, every series of step k and of the later steps is unwritten and  *)
(* holds what it held before the invocation, and the updates of the steps  *)
(* before k stay in the registry (no rollback): the registry is the one    *)
(* before the invocation with exactly the earlier steps' writes applied.   *)
(* A failed fee estimate is one such k: later horizons stay as they were.  *)
C4_AbortKeepsPrefix ==
    \A p \in Procs : \A i \in 1..Len(CallOrder) :
        FailedAt(p, CallOrder[i]) =>
            /\ calls[p] = SubSeq(CallOrder, 1, i)
            /\ Unwritten(p, MetricsFrom(i))
            /\ Kept(p, MetricsFrom(i))
            /\ sink = AfterSteps(pre[p], Unwrap(node[p]), i)

\* The fee estimate for 3 blocks failed after the 2-block gauge was given a new
\* value, and the 5-block gauge of an earlier scrape is still there.
C4_Witness ==
    /\ pc["h1"] = "done"
    /\ FailedAt("h1", "estimate_smart_fee_3")
    /\ SMART_FEE_2 \in DOMAIN pre["h1"]
    /\ sink[SMART_FEE_2] # pre["h1"][SMART_FEE_2]
    /\ SMART_FEE_5 \in DOMAIN sink
    /\ sink[SMART_FEE_5] # ToSat(Unwrap(NodeA.fee_rate[5]))

-----------------------------------------------------------------------------
\* A valid answer of listbanned names no address twice (bitcoind keeps its ban list
\* as a map keyed by subnet).
ValidNode(n) ==
    \A i, j \in 1..Len(Node(n).banned) :
        Node(n).banned[i].address = Node(n).banned[j].address => i = j

\* The gauge series the answers of node configuration n cover, each with the value
\* the answers give it: <<series key, value>>.
Covered(n) ==
    LET a  == Node(n)
        ni == a.network_info
        bi == a.blockchain_info
        st == BlockStats[BlockHeight[bi.best_block_hash]]
    IN  { <<BITCOIN_BLOCKS, bi.blocks>>,
          <<BITCOIN_DIFFICULTY, bi.difficulty>>,
          <<BITCOIN_SIZE_ON_DISK, bi.size_on_disk>>,
          <<BITCOIN_VERIFICATION_PROGRESS, bi.verification_progress>>,
          <<BITCOIN_UPTIME(to_string(ni.version), to_string(ni.protocol_version),
                           ToCoreArg(bi.chain)), a.uptime>>,
          <<BITCOIN_LATEST_BLOCK_SIZE, st.total_size>>,
          <<BITCOIN_LATEST_BLOCK_TXS, st.txs>>,
          <<BITCOIN_LATEST_BLOCK_HEIGHT, st.height>>,
          <<BITCOIN_LATEST_BLOCK_WEIGHT, st.total_weight>>,
          <<BITCOIN_LATEST_BLOCK_INPUTS, st.ins>>,
          <<BITCOIN_LATEST_BLOCK_OUTPUTS, st.outs>>,
          <<BITCOIN_LATEST_BLOCK_VALUE, ToBtc(st.total_out)>>,
          <<BITCOIN_LATEST_BLOCK_FEE, ToBtc(st.total_fee)>>,
          <<BITCOIN_PEERS, ni.connections>>,
          <<BITCOIN_HASHPS, a.hashps[120]>>,
          <<BITCOIN_HASHPS_1, a.hashps[1]>>,
          <<BITCOIN_NUM_CHAINTIPS, Len(a.chaintips)>>,
          <<BITCOIN_MEMPOOL_BYTES, a.mempool.bytes>>,
          <<BITCOIN_MEMPOOL_SIZE, a.mempool.size>>,
          <<BITCOIN_MEMPOOL_USAGE, a.mempool.usage>>,
          <<BITCOIN_MEMPOOL_UNBROADCAST,
            IF a.mempool.unbroadcast_count = None THEN 0
            ELSE a.mempool.unbroadcast_count[1]>>,
          <<BITCOIN_TOTAL_BYTES_RECV, a.net_totals.total_bytes_recv>>,
          <<BITCOIN_TOTAL_BYTES_SENT, a.net_totals.total_bytes_sent>> }
        \cup (IF ni.connections_in = None THEN {}
              ELSE {<<BITCOIN_CONN_IN, ni.connections_in[1]>>})
        \cup (IF ni.connections_out = None THEN {}
              ELSE {<<BITCOIN_CONN_OUT, ni.connections_out[1]>>})
        \cup {<<SmartFeeGauge(h), a.fee_rate[h][1]>> : h \in {g \in Horizons : a.fee_rate[g] # None}}
        \cup {<<BITCOIN_BAN_CREATED(a.banned[i].address, "manually added"),
                a.banned[i].ban_created>> : i \in DOMAIN a.banned}
        \cup {<<BITCOIN_BANNED_UNTIL(a.banned[i].address, "manually added"),
                a.banned[i].banned_until>> : i \in DOMAIN a.banned}

CoveredKeys(n) == {c[1] : c \in Covered(n)}

\* The gauges that carry no label.
PlainGauges ==
    {BITCOIN_BLOCKS, BITCOIN_DIFFICULTY, BITCOIN_SIZE_ON_DISK, BITCOIN_VERIFICATION_PROGRESS,
     BITCOIN_LATEST_BLOCK_SIZE, BITCOIN_LATEST_BLOCK_TXS, BITCOIN_LATEST_BLOCK_HEIGHT,
     BITCOIN_LATEST_BLOCK_WEIGHT, BITCOIN_LATEST_BLOCK_INPUTS, BITCOIN_LATEST_BLOCK_OUTPUTS,
     BITCOIN_LATEST_BLOCK_VALUE, BITCOIN_LATEST_BLOCK_FEE, BITCOIN_PEERS, BITCOIN_CONN_IN,
     BITCOIN_CONN_OUT, SMART_FEE_2, SMART_FEE_3, SMART_FEE_5, SMART_FEE_20, BITCOIN_HASHPS,
     BITCOIN_HASHPS_1, BITCOIN_NUM_CHAINTIPS, BITCOIN_MEMPOOL_BYTES, BITCOIN_MEMPOOL_SIZE,
     BITCOIN_MEMPOOL_USAGE, BITCOIN_MEMPOOL_UNBROADCAST, BITCOIN_TOTAL_BYTES_RECV,
     BITCOIN_TOTAL_BYTES_SENT}

(* C5, as stated: against valid answers a successful invocation sets every *)
(* gauge exactly once.                                                     *)
C5_EveryGaugeOnce ==
    \A p \in Procs :
        (Succeeded(p) /\ ValidNode(Unwrap(node[p]))) =>
            \A g \in PlainGauges : g \in DOMAIN wrote[p] /\ wrote[p][g] = 1

(* C5, amended: against valid answers (no address twice in the ban list) a *)
(* successful invocation sets exactly the gauge series the answers cover,  *)
(* each exactly once and to the answer's value; a fee gauge whose estimate *)
(* carries no rate and a connection gauge whose field is absent are not    *)
(* covered and are not set.                                                *)
C5_CoveredGaugesOnce ==
    \A p \in Procs :
        (Succeeded(p) /\ ValidNode(Unwrap(node[p]))) =>
            /\ \A c \in Covered(Unwrap(node[p])) :
                   /\ c[1] \in DOMAIN wrote[p]
                   /\ wrote[p][c[1]] = 1
                   /\ c[1] \in DOMAIN sink
                   /\ sink[c[1]] = c[2]
            /\ DOMAIN wrote[p] \ {BITCOIN_WARNINGS} = CoveredKeys(Unwrap(node[p]))

\* A successful scrape of a node without fee rates for 3 and 20 blocks and without
\* connection counts, over a registry that holds them from an earlier scrape.
C5_Witness ==
    /\ pc["h1"] = "done"
    /\ Succeeded("h1")
    /\ node["h1"] = Some("B")
    /\ SMART_FEE_3 \in DOMAIN sink
    /\ BITCOIN_CONN_IN \in DOMAIN sink

-----------------------------------------------------------------------------
\* What the warnings counter reads in registry s.
Warnings(s) == IF BITCOIN_WARNINGS \in DOMAIN s THEN s[BITCOIN_WARNINGS] ELSE 0

\* The invocation has run the statements that follow the block-stats call.
PastBlockStats(p) == Len(calls[p]) >= 5 /\ ~FailedAt(p, "get_block_stats")

\* The increase the warnings of a NetworkInfo stand for.
WarningsDelta(w) ==
    CASE w.tag = "String" /\ w.value = "" -> 0
      [] w.tag = "String" /\ w.value # "" -> 1
      [] w.tag = "StringArray" -> Len(w.values)

(* C6: an invocation that reaches the warnings step has increased the      *)
(* warnings counter by 0 for the empty single string, by 1 for a non-empty *)
(* single string and by the length of a list (3 for three warnings); and   *)
(* over any sequence of invocations the counter never decreases.           *)
C6_WarningsCounter ==
    /\ [](\A p \in Procs :
            PastBlockStats(p) =>
                Warnings(sink) = Warnings(pre[p])
                                 + WarningsDelta(Node(Unwrap(node[p])).network_info.warnings))
    /\ [][Warnings(sink') >= Warnings(sink)]_vars

\* A list of three warnings counted on top of one counted by an earlier scrape.
C6_Witness ==
    /\ PastBlockStats("h1")
    /\ Node(Unwrap(node["h1"])).network_info.warnings = WStringArray(<<"a", "b", "c">>)
    /\ Warnings(pre["h1"]) = 1
    /\ Warnings(sink) = 4

-----------------------------------------------------------------------------
\* The series is written once by the invocation and holds v.
SetTo(p, key, v) ==
    /\ key \in DOMAIN wrote[p]
    /\ wrote[p][key] = 1
    /\ key \in DOMAIN sink
    /\ sink[key] = v

\* The series is as the invocation found it: unwritten, unset if it was unset.
Untouched(p, key) ==
    /\ key \notin DOMAIN wrote[p]
    /\ key \in DOMAIN sink <=> key \in DOMAIN pre[p]
    /\ key \in DOMAIN sink => sink[key] = pre[p][key]

(* C7: an invocation that reaches the peer step sets the total-peer gauge  *)
(* to NetworkInfo.connections; it sets the inbound (outbound) connection   *)
(* gauge to the field value when connections_in (connections_out) is       *)
(* present and leaves it untouched when the field is absent: unset if it   *)
(* was never set, never written as zero.                                   *)
C7_ConnectionGauges ==
    \A p \in Procs :
        PastBlockStats(p) =>
            LET ni == Node(Unwrap(node[p])).network_info IN
            /\ SetTo(p, BITCOIN_PEERS, ni.connections)
            /\ IF ni.connections_in = None THEN Untouched(p, BITCOIN_CONN_IN)
               ELSE SetTo(p, BITCOIN_CONN_IN, ni.connections_in[1])
            /\ IF ni.connections_out = None THEN Untouched(p, BITCOIN_CONN_OUT)
               ELSE SetTo(p, BITCOIN_CONN_OUT, ni.connections_out[1])

\* No inbound count and an outbound count of 4, over a registry that holds 8 inbound
\* and 2 outbound connections from an earlier scrape.
C7_Witness ==
    /\ PastBlockStats("h1")
    /\ Node(Unwrap(node["h1"])).network_info.connections_in = None
    /\ Node(Unwrap(node["h1"])).network_info.connections_out = Some(4)
    /\ BITCOIN_CONN_IN \in DOMAIN pre["h1"]
    /\ pre["h1"][BITCOIN_CONN_IN] = 8
    /\ pre["h1"][BITCOIN_CONN_OUT] = 2
    /\ sink[BITCOIN_CONN_IN] = 8
    /\ sink[BITCOIN_CONN_OUT] = 4

-----------------------------------------------------------------------------
\* The call at position i of CallOrder has been issued and has succeeded.
PastCall(p, i) == Len(calls[p]) >= i /\ ~FailedAt(p, CallOrder[i])

(* C8: when the mempool-info call succeeds, the unbroadcast gauge is set   *)
(* to 0 if the field is absent and to the field value if it is present,    *)
(* overwriting any earlier value either way; the byte-size, transaction-   *)
(* count and memory-usage gauges are set from the same MempoolInfo.        *)
C8_MempoolGauges ==
    \A p \in Procs :
        PastCall(p, 14) =>
            LET mempool == Node(Unwrap(node[p])).mempool IN
            /\ IF mempool.unbroadcast_count = None
               THEN SetTo(p, BITCOIN_MEMPOOL_UNBROADCAST, 0)
               ELSE SetTo(p, BITCOIN_MEMPOOL_UNBROADCAST, mempool.unbroadcast_count[1])
            /\ SetTo(p, BITCOIN_MEMPOOL_BYTES, mempool.bytes)
            /\ SetTo(p, BITCOIN_MEMPOOL_SIZE, mempool.size)
            /\ SetTo(p, BITCOIN_MEMPOOL_USAGE, mempool.usage)

\* The field is absent and the gauge, 3 since an earlier scrape, now reads 0.
C8_Witness ==
    /\ PastCall("h1", 14)
    /\ Node(Unwrap(node["h1"])).mempool.unbroadcast_count = None
    /\ BITCOIN_MEMPOOL_UNBROADCAST \in DOMAIN pre["h1"]
    /\ pre["h1"][BITCOIN_MEMPOOL_UNBROADCAST] = 3
    /\ sink[BITCOIN_MEMPOOL_UNBROADCAST] = 0

-----------------------------------------------------------------------------
\* The ban series the invocation has written.
BanSeriesWritten(p) ==
    {k \in DOMAIN wrote[p] : k[1] \in {"BITCOIN_BAN_CREATED", "BITCOIN_BANNED_UNTIL"}}

(* C9, as stated: for a ban list of N entries the invocation produces      *)
(* exactly 2N label-distinct series, a creation and an expiry series per   *)
(* entry, labeled with the entry's address and "manually added" and        *)
(* holding the entry's creation and expiry timestamps.                     *)
C9_TwoSeriesPerEntry ==
    \A p \in Procs :
        PastCall(p, 12) =>
            LET banned == Node(Unwrap(node[p])).banned IN
            /\ Cardinality(BanSeriesWritten(p)) = 2 * Len(banned)
            /\ \A i \in DOMAIN banned :
                   LET created == BITCOIN_BAN_CREATED(banned[i].address, "manually added")
                       until   == BITCOIN_BANNED_UNTIL(banned[i].address, "manually added")
                   IN  /\ created \in DOMAIN sink /\ sink[created] = banned[i].ban_created
                       /\ until \in DOMAIN sink /\ sink[until] = banned[i].banned_until

(* C9, amended: the invocation produces exactly two label-distinct series  *)
(* per distinct address of the ban list, a creation and an expiry series   *)
(* labeled with the address and "manually added", which is 2N series for N *)
(* entries when no address occurs twice; each series holds the timestamp   *)
(* of the last entry of the list that carries its address.                 *)
C9_TwoSeriesPerAddress ==
    \A p \in Procs :
        PastCall(p, 12) =>
            LET banned == Node(Unwrap(node[p])).banned
                addresses == {banned[i].address : i \in DOMAIN banned}
            IN  /\ BanSeriesWritten(p) =
                       {BITCOIN_BAN_CREATED(a, "manually added") : a \in addresses}
                       \cup {BITCOIN_BANNED_UNTIL(a, "manually added") : a \in addresses}
                /\ Cardinality(BanSeriesWritten(p)) = 2 * Cardinality(addresses)
                /\ Cardinality(addresses) = Len(banned)
                       => Cardinality(BanSeriesWritten(p)) = 2 * Len(banned)
                /\ \A i \in DOMAIN banned :
                       (\A j \in DOMAIN banned : j > i => banned[j].address # banned[i].address)
                       => LET created == BITCOIN_BAN_CREATED(banned[i].address, "manually added")
                              until   == BITCOIN_BANNED_UNTIL(banned[i].address, "manually added")
                          IN  /\ created \in DOMAIN sink
                              /\ sink[created] = banned[i].ban_created
                              /\ until \in DOMAIN sink
                              /\ sink[until] = banned[i].banned_until

\* A ban list of two addresses gave four series; one address was banned before with
\* other timestamps.
C9_Witness ==
    /\ PastCall("h1", 12)
    /\ Len(Node(Unwrap(node["h1"])).banned) = 2
    /\ Cardinality(BanSeriesWritten("h1")) = 4
    /\ BITCOIN_BAN_CREATED("10.0.0.1/32", "manually added") \in DOMAIN pre["h1"]
    /\ pre["h1"][BITCOIN_BAN_CREATED("10.0.0.1/32", "manually added")] = 1700
    /\ sink[BITCOIN_BAN_CREATED("10.0.0.1/32", "manually added")] = 1701
    /\ sink[BITCOIN_BANNED_UNTIL("10.0.0.2/32", "manually added")] = 1802

-----------------------------------------------------------------------------
\* Where the fee estimate for horizon h stands in CallOrder.
FeePosition(h) == CASE h = 2 -> 6 [] h = 3 -> 7 [] h = 5 -> 8 [] h = 20 -> 9

\* The gauge of each horizon.
FeeGauge(h) ==
    CASE h = 2 -> <<"SMART_FEE_2", <<>>>> [] h = 3 -> <<"SMART_FEE_3", <<>>>>
      [] h = 5 -> <<"SMART_FEE_5", <<>>>> [] h = 20 -> <<"SMART_FEE_20", <<>>>>

(* C10: for each horizon h of 2, 3, 5 and 20 blocks whose estimate call    *)
(* succeeds: with a fee rate the gauge of h is set to it; without one the  *)
(* gauge of h keeps its prior value and the collection goes on to the next *)
(* call.  Each gauge follows its own horizon's rate only, whatever the     *)
(* other horizons return.                                                  *)
C10_FeeHorizons ==
    \A p \in Procs : \A h \in {2, 3, 5, 20} :
        PastCall(p, FeePosition(h)) =>
            LET fee_rate == Node(Unwrap(node[p])).fee_rate[h] IN
            /\ fee_rate # None => SetTo(p, FeeGauge(h), fee_rate[1])
            /\ fee_rate = None =>
                   /\ Untouched(p, FeeGauge(h))
                   /\ \/ pc[p] = CallOrder[FeePosition(h) + 1]
                      \/ Len(calls[p]) > FeePosition(h)

\* A rate for 2 blocks and none for 3: the 2-block gauge moved from 1000 to 1001 and
\* the 3-block gauge still reads the 900 of an earlier scrape.
C10_Witness ==
    /\ PastCall("h1", 7)
    /\ Node(Unwrap(node["h1"])).fee_rate[2] = Some(1001)
    /\ Node(Unwrap(node["h1"])).fee_rate[3] = None
    /\ SMART_FEE_3 \in DOMAIN pre["h1"]
    /\ pre["h1"][SMART_FEE_2] = 1000
    /\ pre["h1"][SMART_FEE_3] = 900
    /\ sink[SMART_FEE_2] = 1001
    /\ sink[SMART_FEE_3] = 900
    /\ pc["h1"] = "estimate_smart_fee_5"

-----------------------------------------------------------------------------
(* C11, as stated: the error a failed invocation returns carries the       *)
(* identity of the failed operation, so two invocations that return the    *)
(* same error failed in the same operation.                                *)
C11_ErrorNamesOperation ==
    \A p, q \in Procs :
        (Failed(p) /\ Failed(q) /\ TheError(p) = TheError(q)) =>
            Last(calls[p]) = Last(calls[q])

(* C11, amended: a failed invocation returns a single error, the one the   *)
(* first call that failed returned (no call before it failed and none was  *)
(* issued after it), passed on unchanged with its underlying cause; the    *)
(* response body is that error's display text.  The error says nothing of  *)
(* which operation failed.  A successful invocation has seen no failure.   *)
C11_FirstFailureReturned ==
    \A p \in Procs :
        /\ Failed(p) =>
               /\ Len(raised[p]) = 1
               /\ raised[p][1].error = TheError(p)
               /\ raised[p][1].op = Last(calls[p])
               /\ calls[p] = SubSeq(CallOrder, 1, Len(calls[p]))
               /\ pc[p] = "done" =>
                      /\ Unwrap(resp[p]).body.text = Display(raised[p][1].error)
                      /\ Contains(Unwrap(resp[p]).body.text, raised[p][1].error.cause)
        /\ Succeeded(p) => raised[p] = <<>>

\* The mempool call failed with an RPC error after thirteen calls that succeeded, and
\* the body is that error's text.
C11_Witness ==
    /\ pc["h1"] = "done"
    /\ FailedAt("h1", "get_mempool_info")
    /\ Len(calls["h1"]) = 14
    /\ raised["h1"] = <<[op |-> "get_mempool_info",
                         error |-> [kind |-> "JsonRpc", cause |-> "RPC error response"]]>>
    /\ Unwrap(resp["h1"]).body.text = "JSON-RPC error: RPC error response"

-----------------------------------------------------------------------------
(* C12: when every remote call returns, every request gets a response and  *)
(* exactly one (the response stays the request's response until the next   *)
(* request arrives), every invocation of the collector ends in exactly one *)
(* of Success and Failure(cause), and after an error the handler has       *)
(* answered and takes the next request.                                    *)
C12_AlwaysResponds ==
    /\ \A p \in Procs : (pc[p] = "serve_req") ~> (pc[p] = "done" /\ IsSome(resp[p]))
    /\ \A p \in Procs : (pc[p] = "get_network_info") ~> Returned(p)
    /\ [](\A p \in Procs :
            /\ Returned(p) => (Unwrap(result[p]).ok <=> Unwrap(result[p]).err = None)
            /\ pc[p] = "done" => IsSome(resp[p])
            /\ (pc[p] = "done" /\ nreq < MaxRequests) => ENABLED Accept(p))
    /\ [][\A p \in Procs :
            (IsSome(resp[p]) /\ resp'[p] # resp[p]) => (resp'[p] = None /\ pc'[p] = "serve_req")]_vars
    /\ \A p \in Procs : (Failed(p) /\ pc[p] = "match") ~> (pc[p] = "done" /\ IsSome(resp[p]))

\* A failed scrape has been answered and the handler can take the next request.
C12_Witness ==
    /\ pc["h1"] = "done"
    /\ Failed("h1")
    /\ Unwrap(resp["h1"]).status = 404
    /\ nreq < MaxRequests
    /\ ENABLED Accept("h1")

-----------------------------------------------------------------------------
(* C13, as stated: an invocation that has returned issued the whole        *)
(* sequence of calls exactly when it succeeded.                            *)
C13_WholeSequenceIffSuccess ==
    \A p \in Procs : Returned(p) => (calls[p] = CallOrder <=> Succeeded(p))

\* The argument of the i-th call of the order, for a node whose best block is `hash`.
ArgumentOf(i, hash) ==
    CASE CallOrder[i] = "get_block_info" -> <<hash>>
      [] CallOrder[i] = "get_block_stats" -> <<BlockHeight[hash]>>
      [] CallOrder[i] = "estimate_smart_fee_2" -> <<2>>
      [] CallOrder[i] = "estimate_smart_fee_3" -> <<3>>
      [] CallOrder[i] = "estimate_smart_fee_5" -> <<5>>
      [] CallOrder[i] = "estimate_smart_fee_20" -> <<20>>
      [] CallOrder[i] = "get_network_hash_ps_120" -> <<120>>
      [] CallOrder[i] = "get_network_hash_ps_1" -> <<1>>
      [] OTHER -> <<>>

(* C13: the calls issued in one invocation are a prefix of the fixed       *)
(* sequence, each issued once and only while no earlier call has failed;   *)
(* an invocation that succeeded issued the whole sequence, one that failed *)
(* issued the prefix that ends with the failed call (the whole sequence    *)
(* when that is the last call); the best-block lookup is made for the hash *)
(* of this invocation's blockchain info and block stats for the height     *)
(* that lookup resolved.                                                   *)
C13_CallsFormPrefix ==
    /\ [](\A p \in Procs :
            /\ calls[p] = SubSeq(CallOrder, 1, Len(calls[p]))
            /\ Len(args[p]) = Len(calls[p])
            /\ Succeeded(p) => calls[p] = CallOrder
            /\ Failed(p) => /\ calls[p] # <<>>
                            /\ Last(calls[p]) = raised[p][1].op
            /\ IsSome(node[p]) =>
                   \A i \in 1..Len(args[p]) :
                       args[p][i] =
                           ArgumentOf(i, Node(Unwrap(node[p])).blockchain_info.best_block_hash))
    /\ [][\A p \in Procs :
            calls'[p] # calls[p] =>
                \/ calls'[p] = <<>>
                \/ /\ Len(calls[p]) < Len(CallOrder)
                   /\ calls'[p] = Append(calls[p], CallOrder[Len(calls[p]) + 1])
                   /\ raised[p] = <<>>
                   /\ ~Returned(p)]_vars

\* The last call, net totals, failed: every call of the sequence was issued, block
\* stats for height 801 of the best block hash801, and the invocation failed.
C13_Witness ==
    /\ FailedAt("h1", "get_net_totals")
    /\ calls["h1"] = CallOrder
    /\ args["h1"][4] = <<"hash801">>
    /\ args["h1"][5] = <<801>>

-----------------------------------------------------------------------------
\* The ban-labelled series of a registry, and the addresses of a ban list.
BanSeries(s) == {k \in DOMAIN s : k[1] \in {"BITCOIN_BAN_CREATED", "BITCOIN_BANNED_UNTIL"}}
Addresses(banned) == {banned[i].address : i \in DOMAIN banned}
OwnAddresses(p) == Addresses(Node(Unwrap(node[p])).banned)

(* C14: no step removes a ban-labelled series from the sink; a step adds   *)
(* one or changes its value only as the ban-list step of an invocation     *)
(* whose own ban list has the series' address; so the series of an address *)
(* absent from an invocation's ban list keeps, through that invocation,    *)
(* the value it had when the invocation started, and the series an         *)
(* invocation wrote are those of its own ban list.                         *)
C14_BanSeriesStay ==
    /\ [][/\ BanSeries(sink) \subseteq BanSeries(sink')
          /\ \A k \in BanSeries(sink') :
                 (k \notin DOMAIN sink \/ sink'[k] # sink[k]) =>
                     \E p \in Procs :
                         /\ pc[p] = "list_banned"
                         /\ pc'[p] = "get_chain_tips"
                         /\ k[2][1] \in OwnAddresses(p)]_vars
    /\ [](\A p \in Procs :
            /\ \A k \in BanSeriesWritten(p) : k[2][1] \in OwnAddresses(p)
            /\ \A k \in BanSeries(pre[p]) :
                   k[2][1] \notin OwnAddresses(p) =>
                       /\ k \in DOMAIN sink
                       /\ sink[k] = pre[p][k])

\* After a scrape that listed 10.0.0.1/32 and 10.0.0.2/32, a scrape whose ban list has
\* only 10.0.0.1/32 succeeded: the series of 10.0.0.2/32 are still there with the old
\* values and those of 10.0.0.1/32 have the new ones.
C14_Witness ==
    /\ Succeeded("h1")
    /\ node["h1"] = Some("B")
    /\ BITCOIN_BAN_CREATED("10.0.0.2/32", "manually added") \in DOMAIN sink
    /\ sink[BITCOIN_BAN_CREATED("10.0.0.2/32", "manually added")] = 1702
    /\ sink[BITCOIN_BANNED_UNTIL("10.0.0.2/32", "manually added")] = 1802
    /\ pre["h1"][BITCOIN_BAN_CREATED("10.0.0.1/32", "manually added")] = 1701
    /\ sink[BITCOIN_BAN_CREATED("10.0.0.1/32", "manually added")] = 1700
    /\ BanSeriesWritten("h1") = {BITCOIN_BAN_CREATED("10.0.0.1/32", "manually added"),
                                 BITCOIN_BANNED_UNTIL("10.0.0.1/32", "manually added")}

-----------------------------------------------------------------------------
\* The uptime series of a registry, and those an invocation wrote.
UptimeSeries(s) == {k \in DOMAIN s : k[1] = "BITCOIN_UPTIME"}
UptimeSeriesWritten(p) == UptimeSeries(wrote[p])

\* The uptime series named by the snapshots of the node answering p.
OwnUptimeSeries(p) ==
    LET a == Node(Unwrap(node[p]))
    IN <<"BITCOIN_UPTIME", <<to_string(a.network_info.version),
                             to_string(a.network_info.protocol_version),
                             ToCoreArg(a.blockchain_info.chain)>>>>

(* C15: once the uptime call of an invocation has succeeded the invocation *)
(* has written exactly one uptime series, once: the one labelled by the    *)
(* version and protocol version of its network info and the chain of its   *)
(* blockchain info, set to the uptime fetched; every other uptime series   *)
(* is as it was when the invocation started. Before that, the invocation   *)
(* has written no uptime series.                                           *)
C15_OneUptimeSeries ==
    \A p \in Procs :
        IsSome(node[p]) =>
            /\ PastCall(p, 3) =>
                   /\ UptimeSeriesWritten(p) = {OwnUptimeSeries(p)}
                   /\ SetTo(p, OwnUptimeSeries(p), Node(Unwrap(node[p])).uptime)
                   /\ \A k \in UptimeSeries(sink) \cup UptimeSeries(pre[p]) :
                          k # OwnUptimeSeries(p) => Untouched(p, k)
            /\ ~PastCall(p, 3) => UptimeSeriesWritten(p) = {}

\* A scrape of a 22.0 regtest node after a scrape of a 25.0 mainnet node: the second
\* wrote the series of its own triple and the series of the first is as it was.
C15_Witness ==
    /\ node["h1"] = Some("B")
    /\ PastCall("h1", 3)
    /\ UptimeSeriesWritten("h1") = {BITCOIN_UPTIME("220000", "70015", "regtest")}
    /\ BITCOIN_UPTIME("250000", "70016", "main") \in DOMAIN pre["h1"]
    /\ UptimeSeries(sink) = {BITCOIN_UPTIME("220000", "70015", "regtest"),
                             BITCOIN_UPTIME("250000", "70016", "main")}
    /\ sink[BITCOIN_UPTIME("250000", "70016", "main")] = Node("A").uptime

-----------------------------------------------------------------------------
\* StepWrites, by node configuration and position of the call in CallOrder.
StepWritesAll ==
    [n \in NodeIds |-> [i \in 1..Len(CallOrder) |-> StepWrites(n, CallOrder[i])]]

\* By node configuration and position i, the gauge series written by the steps before
\* position i, each with the value last written to it; position Len(CallOrder) + 1
\* stands for all the steps.
LastWrittenAll ==
    [n \in NodeIds |->
        [i \in 1..(Len(CallOrder) + 1) |->
            SetAll(Empty, IF i <= Len(CallOrder) THEN WritesBeforeAll[n][i]
                          ELSE WritesBeforeAll[n][Len(CallOrder)]
                               \o StepWritesAll[n][Len(CallOrder)])]]

\* The gauge series the invocation of p has written, once it has returned, each with
\* the value it last wrote.
Written(p) ==
    LastWrittenAll[Unwrap(node[p])][IF Succeeded(p) THEN Len(CallOrder) + 1
                                    ELSE Len(calls[p])]

\* The series whose value in registry t is not the one in registry s.
Changed(s, t) == {k \in DOMAIN t : k \notin DOMAIN s \/ t[k] # s[k]}

\* The invocation of p wrote the value v to the gauge series k.
WroteValue(p, k, v) == k \in DOMAIN Written(p) /\ Written(p)[k] = v

\* What the invocation of p added to the warnings counter.
Added(p) ==
    IF PastBlockStats(p) THEN WarningsDelta(Node(Unwrap(node[p])).network_info.warnings)
    ELSE 0

\* The first two requests were scrapes, one per handler, and both invocations returned.
BothReturned ==
    /\ nreq = Cardinality(Procs)
    /\ \A p \in Procs : Serving(p) /\ IsScrape(p) /\ Returned(p)

(* C16: two invocations run with their steps interleaved in any order,     *)
(* each registry write acting on its own series. Every step that gives a   *)
(* gauge series a value is a write of that value by one running invocation *)
(* (so a series nobody writes keeps its prior value, and no value is a mix *)
(* of two), and every change of the warnings counter adds one invocation's *)
(* delta. After both invocations of the first two scrapes have returned,   *)
(* each gauge series in the registry holds a value one of the two wrote to *)
(* it, a series neither wrote is as before (unset), and the warnings       *)
(* counter is the sum of the two deltas.                                   *)
C16_OverlappingWrites ==
    /\ [](BothReturned =>
            /\ \A k \in DOMAIN sink \ {BITCOIN_WARNINGS} :
                   \E p \in Procs : WroteValue(p, k, sink[k])
            /\ \A p \in Procs : \A k \in DOMAIN wrote[p] : k \in DOMAIN sink
            /\ Warnings(sink) = Added("h1") + Added("h2"))
    /\ [][/\ DOMAIN sink \subseteq DOMAIN sink'
          /\ \A k \in Changed(sink, sink') \ {BITCOIN_WARNINGS} :
                 \E p \in Procs :
                     /\ calls'[p] = Append(calls[p], pc[p])
                     /\ LET ws == StepWritesAll[Unwrap(node[p])][Len(calls'[p])]
                        IN \E i \in DOMAIN ws : ws[i][1] = k /\ ws[i][2] = sink'[k]
          /\ Warnings(sink') # Warnings(sink) =>
                 \E p \in Procs :
                     /\ pc[p] = "get_block_stats"
                     /\ pc'[p] = "estimate_smart_fee_2"
                     /\ Warnings(sink') = Warnings(sink)
                            + WarningsDelta(Node(Unwrap(node[p])).network_info.warnings)]_vars

\* Two overlapping scrapes both succeeded, one of a node with one warning and one of
\* a node with three: the difficulty gauge holds the first node's value, the
\* received-bytes gauge the second's, and the counter reads four.
C16_Witness ==
    /\ BothReturned
    /\ Succeeded("h1") /\ Succeeded("h2")
    /\ node["h1"] = Some("B") /\ node["h2"] = Some("C")
    /\ WroteValue("h1", BITCOIN_DIFFICULTY, sink[BITCOIN_DIFFICULTY])
    /\ ~WroteValue("h2", BITCOIN_DIFFICULTY, sink[BITCOIN_DIFFICULTY])
    /\ WroteValue("h2", BITCOIN_TOTAL_BYTES_RECV, sink[BITCOIN_TOTAL_BYTES_RECV])
    /\ ~WroteValue("h1", BITCOIN_TOTAL_BYTES_RECV, sink[BITCOIN_TOTAL_BYTES_RECV])
    /\ Warnings(sink) = 4

-----------------------------------------------------------------------------
\* The metrics written from NetworkInfo alone.
NetworkInfoMetrics == {"BITCOIN_WARNINGS", "BITCOIN_PEERS", "BITCOIN_CONN_IN", "BITCOIN_CONN_OUT"}

(* C17: until network info, blockchain info, uptime, the best-block lookup *)
(* and block stats have all succeeded, an invocation has written neither   *)
(* the warnings counter nor the peer and connection gauges, and they hold  *)
(* what they held before it, also when it failed in one of those calls     *)
(* after network info was fetched; an invocation past block stats has      *)
(* added its delta to the counter, also when it failed later; and the      *)
(* counter, zero at start, changes only by the delta of an invocation      *)
(* passing block stats, so it is the sum of the deltas of the invocations  *)
(* that got past block stats.                                              *)
C17_CountedAfterBlockStats ==
    /\ [](\A p \in Procs :
            (Serving(p) /\ IsScrape(p)) =>
                /\ ~PastBlockStats(p) =>
                       /\ Unwritten(p, NetworkInfoMetrics)
                       /\ Kept(p, NetworkInfoMetrics)
                /\ PastBlockStats(p) =>
                       /\ BITCOIN_PEERS \in DOMAIN wrote[p]
                       /\ Warnings(sink) = Warnings(pre[p]) + Added(p))
    /\ Warnings(sink) = 0
    /\ [][Warnings(sink') # Warnings(sink) =>
              \E p \in Procs :
                  /\ pc[p] = "get_block_stats"
                  /\ pc'[p] = "estimate_smart_fee_2"
                  /\ Warnings(sink') = Warnings(sink)
                         + WarningsDelta(Node(Unwrap(node[p])).network_info.warnings)]_vars
    /\ [][\A p \in Procs :
              (pc[p] = "get_block_stats" /\ pc'[p] = "estimate_smart_fee_2") =>
                  Warnings(sink') = Warnings(sink)
                      + WarningsDelta(Node(Unwrap(node[p])).network_info.warnings)]_vars

\* A scrape of a node with three warnings failed at the first fee estimate, on top of
\* a counter of one from an earlier scrape: the counter reads four and the peer gauge
\* has the new value.
C17_Witness ==
    /\ FailedAt("h1", "estimate_smart_fee_2")
    /\ node["h1"] = Some("C")
    /\ Warnings(pre["h1"]) = 1
    /\ Warnings(sink) = 4
    /\ SetTo("h1", BITCOIN_PEERS, 7)

-----------------------------------------------------------------------------
\* The gauge writes each answer of a kind stands for, over the answers a node can give.
BlockchainSnapshots == {BlockchainWrites(Node(n).blockchain_info) : n \in NodeIds}
BlockStatsSnapshots == {BlockStatsWrites(BlockStats[h]) : h \in DOMAIN BlockStats}
MempoolSnapshots == {MempoolWrites(Node(n).mempool) : n \in NodeIds}
NetTotalsSnapshots == {NetTotalsWrites(Node(n).net_totals) : n \in NodeIds}

\* Registry s holds every value of the write list ws; or no series of it.
Holds(s, ws) == \A i \in DOMAIN ws : ws[i][1] \in DOMAIN s /\ s[ws[i][1]] = ws[i][2]
Unset(s, ws) == \A i \in DOMAIN ws : ws[i][1] \notin DOMAIN s

\* The gauges of a group are those of one answer, or none of them is set.
FromOneSnapshot(s, snapshots) ==
    \/ \E ws \in snapshots : Holds(s, ws)
    \/ \A ws \in snapshots : Unset(s, ws)

\* The latest-block metrics.
LatestBlockMetrics ==
    {"BITCOIN_LATEST_BLOCK_SIZE", "BITCOIN_LATEST_BLOCK_TXS", "BITCOIN_LATEST_BLOCK_HEIGHT",
     "BITCOIN_LATEST_BLOCK_WEIGHT", "BITCOIN_LATEST_BLOCK_INPUTS",
     "BITCOIN_LATEST_BLOCK_OUTPUTS", "BITCOIN_LATEST_BLOCK_VALUE", "BITCOIN_LATEST_BLOCK_FEE"}

(* C18: with one invocation at a time, after any sequence of invocations,  *)
(* successful or failed, and between their steps, the four blockchain      *)
(* gauges are those of one BlockchainInfo, the eight latest-block gauges   *)
(* those of one BlockStats, the four mempool gauges those of one           *)
(* MempoolInfo and the two byte-total gauges those of one NetTotals (or    *)
(* the group is still unset); and an invocation in which the best-block    *)
(* lookup or the block-stats call failed has written no latest-block gauge.*)
C18_GroupsFromOneSnapshot ==
    /\ FromOneSnapshot(sink, BlockchainSnapshots)
    /\ FromOneSnapshot(sink, BlockStatsSnapshots)
    /\ FromOneSnapshot(sink, MempoolSnapshots)
    /\ FromOneSnapshot(sink, NetTotalsSnapshots)
    /\ \A ws \in BlockchainSnapshots \cup MempoolSnapshots : Len(ws) = 4
    /\ \A ws \in BlockStatsSnapshots : Len(ws) = 8
    /\ \A ws \in NetTotalsSnapshots : Len(ws) = 2
    /\ \A p \in Procs :
           (FailedAt(p, "get_block_info") \/ FailedAt(p, "get_block_stats")) =>
               /\ Unwritten(p, LatestBlockMetrics)
               /\ Kept(p, LatestBlockMetrics)

\* After a scrape of node A, a scrape of node B failed at the mempool call: the
\* blockchain and latest-block gauges are B's, the mempool and byte-total gauges A's.
C18_Witness ==
    /\ FailedAt("h1", "get_mempool_info")
    /\ node["h1"] = Some("B")
    /\ Holds(sink, BlockchainWrites(NodeB.blockchain_info))
    /\ Holds(sink, BlockStatsWrites(BlockStats[801]))
    /\ Holds(sink, MempoolWrites(NodeA.mempool))
    /\ Holds(sink, NetTotalsWrites(NodeA.net_totals))
    /\ Holds(pre["h1"], BlockStatsWrites(BlockStats[800]))

====
